---- MODULE Spec2Model ----
(***************************************************************************)
(* Model of the GitHub upgrade provider (src/lib/github_provider.ts) and   *)
(* of the upgrade command built on it (src/lib/github_upgrade_command.ts). *)
(*                                                                         *)
(* JavaScript strings are TLA+ strings; the JavaScript value `undefined`   *)
(* is the sentinel Undefined, which is no version name.  A run of the      *)
(* command is: the option actions, then the command action, which awaits   *)
(* isOutdated and then upgrade; each await of getVersions reads the        *)
(* remote anew, so each one draws its own API response.                    *)
(***************************************************************************)
EXTENDS Integers, Sequences, FiniteSets, TLC

VARIABLES
    force,            \* --force
    listVersionsOpt,  \* --list-versions
    targetVersion,    \* --version, default "latest"
    currentVersion,   \* this.getVersion(): a string or Undefined
    pc,               \* position of the run
    calls,            \* provider methods invoked so far, in order
    apiResp,          \* API response read by the last getVersions call
    fetched,          \* outcome of the last getVersions call
    outdated,         \* outcome of isOutdated
    upgraded,         \* outcome of upgrade
    printed,          \* what listVersions wrote through printVersions
    exitCode,         \* the codes given to Deno.exit, in order
    failure           \* class of the error that ended the run, or "none"

vars == <<force, listVersionsOpt, targetVersion, currentVersion,
          pc, calls, apiResp, fetched, outdated, upgraded, printed, exitCode,
          failure>>

-----------------------------------------------------------------------------
(* Bounds *)

MaxTags == 2
MaxBranches == 2
MaxCount == 31

(* Program constants *)

maxListSize == 25
maxCols == 8
branchMaxCols == 5

Undefined == "<undefined>"

repositoryName == "owner/repo"
repositoryUrl == "https://github.com/"
registryUrl == "https://raw.githubusercontent.com/"
commandName == "tool"
tagRefPrefix == "refs/tags/"

-----------------------------------------------------------------------------
(* JavaScript helpers *)

\* truthiness of a string or undefined
Truthy(s) == s /= Undefined /\ s /= ""

\* `${x}` in a template literal
Str(x) == IF x = Undefined THEN "undefined" ELSE x

Reverse(s) == [i \in 1..Len(s) |-> s[Len(s) + 1 - i]]

Includes(s, x) == \E i \in 1..Len(s) : s[i] = x

\* arr[i] with a 0-based index: undefined past the end
At(arr, i) == IF i >= 0 /\ i < Len(arr) THEN arr[i + 1] ELSE Undefined

Min(a, b) == IF a < b THEN a ELSE b

\* Math.ceil(a / b) for a >= 0, b > 0
Ceil(a, b) == (a + b - 1) \div b

\* the colour helpers wrap their argument in escape codes (ESC is \x1b)
bold(s) == "ESC[1m" \o s \o "ESC[22m"
green(s) == "ESC[32m" \o s \o "ESC[39m"

-----------------------------------------------------------------------------
(* The remote API *)

TagNames == {"v1", "v2", "v3"}
BranchNamePool == <<"main", "dev", "fix", "hot">>
BranchNames == {BranchNamePool[i] : i \in 1..Min(MaxBranches, Len(BranchNamePool))}

InjSeqs(S, n) ==
    {s \in UNION {[1..k -> S] : k \in 0..n} :
        \A i, j \in 1..Len(s) : i /= j => s[i] /= s[j]}

TagLists == {[i \in 1..Len(s) |-> [ref |-> tagRefPrefix \o s[i]]] :
                s \in InjSeqs(TagNames, MaxTags)}

BranchLists ==
    UNION {{[i \in 1..Len(s) |-> [name |-> s[i], protected |-> p[i]]] :
                p \in [1..Len(s) -> BOOLEAN]} :
            s \in InjSeqs(BranchNames, MaxBranches)}

Ok(data) == [status |-> "ok", data |-> data]
NoStatus == [status |-> "nostatus", data |-> <<>>]
ApiErrorBody == [status |-> "apierror", data |-> <<>>]

SmallResponses ==
    [tags : {Ok(t) : t \in TagLists} \cup {NoStatus, ApiErrorBody},
     branches : {Ok(b) : b \in BranchLists} \cup {NoStatus, ApiErrorBody}]

\* a repository with n tags and n branches, every third branch protected
LargeTags(n) == [i \in 1..n |-> [ref |-> tagRefPrefix \o "v" \o ToString(i)]]

LargeBranches(n) ==
    [i \in 1..n |-> [name |-> "b" \o ToString(i), protected |-> (i % 3 = 1)]]

LargeResponses ==
    {[tags |-> Ok(LargeTags(n)), branches |-> Ok(LargeBranches(n))] : n \in (maxListSize - 1)..MaxCount}

Responses == SmallResponses \cup LargeResponses

NoResp == [tags |-> NoStatus, branches |-> NoStatus]

-----------------------------------------------------------------------------
(* GithubProvider *)

getRepositoryUrl(name) == repositoryUrl \o repositoryName \o "/"

getRegistryUrl(name, version) ==
    registryUrl \o repositoryName \o "/" \o Str(version) \o "/"

\* gitFetch: the parsed body, or an Error when the response has no status
\* or the body is a structured error payload
gitFetch(outcome) ==
    IF outcome.status = "nostatus" THEN [ok |-> FALSE, error |-> "Error", data |-> <<>>]
    ELSE IF outcome.status = "apierror" THEN [ok |-> FALSE, error |-> "Error", data |-> <<>>]
    ELSE [ok |-> TRUE, error |-> "none", data |-> outcome.data]

\* tag.ref.replace(/^refs\/tags\//, "")
StripTagPrefix_keep(ref) == ref

StripTagPrefix(ref) ==
    IF Len(ref) >= Len(tagRefPrefix) /\ SubSeq(ref, 1, Len(tagRefPrefix)) = tagRefPrefix
    THEN SubSeq(ref, Len(tagRefPrefix) + 1, Len(ref))
    ELSE ref

\* the comparator given to branches.sort
compareProtected(a, b) ==
    IF a.protected = b.protected THEN 0 ELSE IF a.protected THEN 1 ELSE -1

\* Array.prototype.sort is stable: an element goes after every element
\* already placed that does not compare greater than it
RECURSIVE InsertSorted(_, _)
InsertSorted(sorted, x) ==
    IF sorted = <<>> THEN <<x>>
    ELSE IF compareProtected(sorted[Len(sorted)], x) <= 0 THEN Append(sorted, x)
    ELSE Append(InsertSorted(SubSeq(sorted, 1, Len(sorted) - 1), x), sorted[Len(sorted)])

RECURSIVE SortBranches(_)
SortBranches(bs) ==
    IF bs = <<>> THEN <<>>
    ELSE InsertSorted(SortBranches(SubSeq(bs, 1, Len(bs) - 1)), bs[Len(bs)])

\* `${tag.name} ${tag.protected ? `(${bold("Protected")})` : ""}`
branchLabel(b) ==
    b.name \o " " \o (IF b.protected THEN "(" \o bold("Protected") \o ")" ELSE "")

NoVersions == [versions |-> <<>>, latest |-> Undefined, tags |-> <<>>, branches |-> <<>>]

\* getVersions: Promise.all rejects when either request rejects
getVersions(resp) ==
    LET tags == gitFetch(resp.tags)
        branches == gitFetch(resp.branches)
    IN  IF ~tags.ok \/ ~branches.ok
        THEN [ok |-> FALSE, error |-> "Error", v |-> NoVersions]
        ELSE LET tagNames ==
                     Reverse([i \in 1..Len(tags.data) |-> StripTagPrefix(tags.data[i].ref)])
                 sortedBranches == SortBranches(branches.data)
                 branchNames ==
                     Reverse([i \in 1..Len(sortedBranches) |-> branchLabel(sortedBranches[i])])
             IN  [ok |-> TRUE, error |-> "none",
                  v |-> [versions |-> tagNames \o branchNames,
                         latest |-> At(tagNames, 0),
                         tags |-> tagNames,
                         branches |-> branchNames]]

NoFetch == [ok |-> FALSE, error |-> "none", v |-> NoVersions]

\* whether branches are listed: the constructor's default
listBranches == TRUE

RECURSIVE Spaces(_)
Spaces(n) == IF n <= 0 THEN "" ELSE " " \o Spaces(n - 1)

\* table[rowIndex][colIndex] = value, creating the row when it is missing
SetCell(table, rowIndex, colIndex, value) ==
    LET row == IF rowIndex \in DOMAIN table THEN table[rowIndex] ELSE <<>>
        newRow == [c \in (DOMAIN row) \cup {colIndex} |->
                      IF c = colIndex THEN value ELSE row[c]]
    IN  [r \in (DOMAIN table) \cup {rowIndex} |->
            IF r = rowIndex THEN newRow ELSE table[r]]

\* the two nested loops of printVersions, with versionIndex++
RECURSIVE FillTable(_, _, _, _, _, _, _)
FillTable(table, versions, rowSize, colSize, colIndex, rowIndex, versionIndex) ==
    IF colIndex >= colSize THEN table
    ELSE IF rowIndex >= rowSize
         THEN FillTable(table, versions, rowSize, colSize, colIndex + 1, 0, versionIndex)
         ELSE FillTable(SetCell(table, rowIndex, colIndex, At(versions, versionIndex)),
                        versions, rowSize, colSize, colIndex, rowIndex + 1,
                        versionIndex + 1)

tableRowSize_floor(count, cols) == count \div cols

tableRowSize(count, cols) == Ceil(count, cols)

tableColSize(count, cols) == Min(count, cols)

\* the mark put in front of each version
markVersion(version, current) ==
    IF Truthy(current) /\ current = version
    THEN green("* " \o version)
    ELSE "  " \o version

NoPrint == [kind |-> "none", indent |-> 0, lines |-> <<>>,
            rowSize |-> 0, colSize |-> 0, table |-> <<>>]

printVersions(versions, current, cols, indent) ==
    IF Len(versions) = 0 THEN NoPrint
    ELSE LET marked == [i \in 1..Len(versions) |-> markVersion(versions[i], current)]
         IN  IF Len(marked) > maxListSize
             THEN LET rowSize == tableRowSize(Len(marked), cols)
                      colSize == tableColSize(Len(marked), cols)
                  IN  [kind |-> "table", indent |-> indent, lines |-> <<>>,
                       rowSize |-> rowSize, colSize |-> colSize,
                       table |-> FillTable(<<>>, marked, rowSize, colSize, 0, 0, 0)]
             ELSE [kind |-> "lines", indent |-> indent,
                   lines |-> [i \in 1..Len(marked) |-> Spaces(indent) \o marked[i]],
                   rowSize |-> 0, colSize |-> 0, table |-> <<>>]

NoPrinted == [showBranches |-> FALSE, tags |-> NoPrint, branches |-> NoPrint]

listVersions(resp, name, current) ==
    LET r == getVersions(resp)
    IN  IF ~r.ok THEN [ok |-> FALSE, error |-> r.error, out |-> NoPrinted]
        ELSE LET showBranches == listBranches /\ Len(r.v.branches) > 0
                 indent == IF showBranches THEN 2 ELSE 0
             IN  [ok |-> TRUE, error |-> "none",
                  out |-> [showBranches |-> showBranches,
                           tags |-> printVersions(r.v.tags, current, maxCols, indent),
                           branches |->
                               IF showBranches
                               THEN printVersions(r.v.branches, current, branchMaxCols, indent)
                               ELSE NoPrint]]

NoOutdated == [result |-> "none", target |-> Undefined, warning |-> ""]

isOutdated_skipInstalledCheck(resp, name, current, target) ==
    LET r == getVersions(resp)
        resolved == IF target = "latest" THEN r.v.latest ELSE target
    IN  IF ~r.ok THEN [result |-> r.error, target |-> target, warning |-> ""]
        ELSE IF Truthy(resolved) /\ ~Includes(r.v.versions, resolved)
        THEN [result |-> "ValidationError", target |-> resolved, warning |-> ""]
        ELSE [result |-> "true", target |-> resolved, warning |-> ""]

isOutdated_validateEmpty(resp, name, current, target) ==
    LET r == getVersions(resp)
        resolved == IF target = "latest" THEN r.v.latest ELSE target
    IN  IF ~r.ok THEN [result |-> r.error, target |-> target, warning |-> ""]
        ELSE IF ~Includes(r.v.versions, resolved)
        THEN [result |-> "ValidationError", target |-> resolved, warning |-> ""]
        ELSE IF Truthy(resolved) /\ current = resolved
        THEN [result |-> "false", target |-> resolved, warning |-> ""]
        ELSE [result |-> "true", target |-> resolved, warning |-> ""]

isOutdated(resp, name, current, target) ==
    LET r == getVersions(resp)
        latest == r.v.latest
        versions == r.v.versions
        resolved == IF target = "latest" THEN latest ELSE target
    IN  IF ~r.ok THEN [result |-> r.error, target |-> target, warning |-> ""]
        ELSE IF Truthy(resolved) /\ ~Includes(versions, resolved)
        THEN [result |-> "ValidationError", target |-> resolved, warning |-> ""]
        ELSE IF Truthy(latest) /\ latest = current /\ latest = resolved
        THEN [result |-> "false", target |-> resolved,
              warning |-> "You're already using the latest available version "
                          \o Str(current) \o " of " \o name \o "."]
        ELSE IF Truthy(resolved) /\ current = resolved
        THEN [result |-> "false", target |-> resolved,
              warning |-> "You're already using version "
                          \o Str(current) \o " of " \o name \o "."]
        ELSE [result |-> "true", target |-> resolved, warning |-> ""]

NoUpgrade == [result |-> "none", to |-> Undefined, message |-> ""]

upgradeMessage(name, from, to) ==
    "Successfully upgraded " \o name \o " from " \o Str(from) \o " to version "
    \o Str(to) \o "! (" \o getRegistryUrl(name, to) \o ")"

upgrade_unresolved(resp, name, from, to) ==
    [result |-> "ok", to |-> to, message |-> upgradeMessage(name, from, to)]

upgrade(resp, name, from, to) ==
    IF to = "latest"
    THEN LET r == getVersions(resp)
         IN  IF ~r.ok
             THEN [result |-> r.error, to |-> to, message |-> ""]
             ELSE [result |-> "ok", to |-> r.v.latest,
                   message |-> upgradeMessage(name, from, r.v.latest)]
    ELSE [result |-> "ok", to |-> to, message |-> upgradeMessage(name, from, to)]

-----------------------------------------------------------------------------
(* GithubUpgradeCommand *)

TargetVersions == {"latest", "", "v1", "v2", "nope"}
CurrentVersions == {Undefined, "", "v1", "v2", "latest"}

\* the --list-versions action after listVersions: Deno.exit(0) when it
\* completed, the error when it threw
afterListVersions_noExit(ok, error) ==
    IF ok THEN [pc |-> "action", exitCode |-> <<>>, failure |-> "none"]
    ELSE [pc |-> "failed", exitCode |-> <<>>, failure |-> error]

afterListVersions(ok, error) ==
    IF ok THEN [pc |-> "exited", exitCode |-> <<0>>, failure |-> "none"]
    ELSE [pc |-> "failed", exitCode |-> <<>>, failure |-> error]

\* force || !currentVersion: the operands that short-circuit isOutdated
skipOutdatedCheck_forceOnly(f, current) == f

skipOutdatedCheck(f, current) == f \/ ~Truthy(current)

Init ==
    /\ force \in BOOLEAN
    /\ listVersionsOpt \in BOOLEAN
    /\ targetVersion \in TargetVersions
    /\ currentVersion \in CurrentVersions
    /\ pc = "options"
    /\ calls = <<>>
    /\ apiResp = NoResp
    /\ fetched = NoFetch
    /\ outdated = NoOutdated
    /\ upgraded = NoUpgrade
    /\ printed = NoPrinted
    /\ exitCode = <<>>
    /\ failure = "none"

\* the action of the --list-versions option
ListVersionsOption ==
    /\ pc = "options"
    /\ listVersionsOpt
    /\ \E resp \in Responses :
        LET r == listVersions(resp, commandName, currentVersion)
            next == afterListVersions(r.ok, r.error)
        IN  /\ calls' = Append(calls, "listVersions")
            /\ apiResp' = resp
            /\ fetched' = getVersions(resp)
            /\ printed' = r.out
            /\ pc' = next.pc
            /\ exitCode' = next.exitCode
            /\ failure' = next.failure
    /\ UNCHANGED <<force, listVersionsOpt, targetVersion, currentVersion,
                   outdated, upgraded>>

\* the command action up to the end of its condition
ActionCheck ==
    /\ \/ pc = "options" /\ ~listVersionsOpt
       \/ pc = "action"
    /\ IF skipOutdatedCheck(force, currentVersion)
       THEN /\ pc' = "upgrade"
            /\ UNCHANGED <<calls, apiResp, fetched, outdated, failure>>
       ELSE \E resp \in Responses :
            LET r == isOutdated(resp, commandName, currentVersion, targetVersion)
            IN  /\ calls' = Append(calls, "isOutdated")
                /\ apiResp' = resp
                /\ fetched' = getVersions(resp)
                /\ outdated' = r
                /\ pc' = IF r.result = "true" THEN "upgrade"
                         ELSE IF r.result = "false" THEN "done"
                         ELSE "failed"
                /\ failure' = IF r.result \in {"true", "false"} THEN "none" ELSE r.result
    /\ UNCHANGED <<force, listVersionsOpt, targetVersion, currentVersion,
                   upgraded, printed, exitCode>>

\* the body of the command action's if; upgrade reads the remote only
\* when the target is "latest"
ActionUpgrade ==
    /\ pc = "upgrade"
    /\ \E resp \in (IF targetVersion = "latest" THEN Responses ELSE {NoResp}) :
        LET u == upgrade(resp, commandName, currentVersion, targetVersion)
        IN  /\ calls' = Append(calls, "upgrade")
            /\ upgraded' = u
            /\ IF targetVersion = "latest"
               THEN apiResp' = resp /\ fetched' = getVersions(resp)
               ELSE UNCHANGED <<apiResp, fetched>>
            /\ pc' = IF u.result = "ok" THEN "done" ELSE "failed"
            /\ failure' = IF u.result = "ok" THEN "none" ELSE u.result
    /\ UNCHANGED <<force, listVersionsOpt, targetVersion, currentVersion,
                   outdated, printed, exitCode>>

Next == ListVersionsOption \/ ActionCheck \/ ActionUpgrade

Spec == Init /\ [][Next]_vars

-----------------------------------------------------------------------------
(* Properties *)

LastCall == IF calls = <<>> THEN "none" ELSE calls[Len(calls)]

Called(method) == Includes(calls, method)

\* the target after "latest" is replaced by the fetched latest value
ResolvedTarget == IF targetVersion = "latest" THEN fetched.v.latest ELSE targetVersion

\* C1 as stated: isOutdated(name, v, v) returns false for every non-empty v,
\* whatever lists the remote returned.
C1_SameVersionNeverOutdated ==
    (LastCall = "isOutdated" /\ fetched.ok
        /\ currentVersion = targetVersion /\ currentVersion /= "")
    => outdated.result = "false"

\* C1 amended: isOutdated(name, v, v), for a non-empty v other than "latest",
\* returns false when v is in the fetched versions list and fails with
\* ValidationError when it is not.
C1_SameListedVersionNotOutdated ==
    (LastCall = "isOutdated" /\ fetched.ok
        /\ currentVersion = targetVersion /\ targetVersion /= "latest")
    => outdated.result =
         (IF Includes(fetched.v.versions, targetVersion) THEN "false" ELSE "ValidationError")

C1_Witness ==
    /\ LastCall = "isOutdated"
    /\ currentVersion = targetVersion
    /\ targetVersion = "v1"
    /\ fetched.v.latest = "v2"
    /\ outdated.result = "false"

\* C2: isOutdated fails with ValidationError exactly when the resolved target
\* is non-empty and is not an element of the fetched versions list.
C2_ValidationErrorIffUnknownTarget ==
    LastCall = "isOutdated"
    => ((outdated.result = "ValidationError")
        <=> (/\ fetched.ok
             /\ ResolvedTarget /= Undefined
             /\ ResolvedTarget /= ""
             /\ \A i \in 1..Len(fetched.v.versions) :
                    fetched.v.versions[i] /= ResolvedTarget))

C2_Witness ==
    /\ LastCall = "isOutdated"
    /\ targetVersion = "v1"
    /\ Len(fetched.v.versions) > 0
    /\ outdated.result = "ValidationError"

\* C3: with target "latest", a true result of isOutdated implies that the
\* resolved target tags[0] is in the fetched versions list and differs from
\* the current version.
C3_OutdatedImpliesTargetExists ==
    (LastCall = "isOutdated" /\ targetVersion = "latest" /\ outdated.result = "true")
    => /\ Includes(fetched.v.versions, At(fetched.v.tags, 0))
       /\ At(fetched.v.tags, 0) /= currentVersion

\* C4: the tags of getVersions are the API refs in reverse order without the
\* "refs/tags/" prefix, and latest is tags[0], undefined without tags.
C4_TagsReversedAndStripped ==
    fetched.ok
    => LET api == apiResp.tags.data
           n == Len(api)
           tags == fetched.v.tags
       IN  /\ Len(tags) = n
           /\ \A i \in 1..n : tagRefPrefix \o tags[i] = api[n + 1 - i].ref
           /\ fetched.v.latest = (IF n = 0 THEN Undefined ELSE tags[1])

C4_Witness ==
    /\ fetched.ok
    /\ Len(apiResp.tags.data) = 2
    /\ apiResp.tags.data[1].ref = "refs/tags/v1"
    /\ fetched.v.tags = <<"v2", "v1">>

IsProtected(b) == b.protected
IsUnprotected(b) == ~b.protected

\* C5: branches are the reverse of the stable partition (unprotected, then
\* protected), a protected branch as its name with the "(Protected)" marker
\* and an unprotected branch as exactly its name.
C5_BranchesPartitionedAndLabelled ==
    fetched.ok
    => LET api == apiResp.branches.data
           partition == SelectSeq(api, IsUnprotected) \o SelectSeq(api, IsProtected)
           label(b) == IF b.protected
                       THEN b.name \o " (" \o bold("Protected") \o ")"
                       ELSE b.name
       IN  fetched.v.branches =
               Reverse([i \in 1..Len(partition) |-> label(partition[i])])

\* the grid printVersions builds for entries and cols
GridLayout(p, versions, cols) ==
    LET count == Len(versions)
    IN  count > 25
        => /\ p.kind = "table"
           /\ p.rowSize * cols >= count
           /\ (p.rowSize - 1) * cols < count
           /\ p.colSize = (IF count < cols THEN count ELSE cols)
           /\ DOMAIN p.table = 0..(p.rowSize - 1)
           /\ \A r \in DOMAIN p.table : DOMAIN p.table[r] = 0..(p.colSize - 1)
           /\ \A i \in 0..(count - 1) :
                p.table[i % p.rowSize][i \div p.rowSize]
                    = markVersion(versions[i + 1], currentVersion)
           /\ \A r \in 0..(p.rowSize - 1), c \in 0..(p.colSize - 1) :
                (c * p.rowSize + r >= count) => p.table[r][c] = Undefined

Absent(version) == version = Undefined \/ version = ""

\* C7: in the command action upgrade is invoked exactly when --force is set,
\* the current version is absent or isOutdated returned true; isOutdated is
\* not called under --force or without a current version; after a false
\* result or an error of isOutdated upgrade is not invoked, and only the
\* error ends the action with a failure.
C7_UpgradeExactlyWhenWarranted ==
    /\ Called("upgrade")
         => (force \/ Absent(currentVersion) \/ outdated.result = "true")
    /\ (~listVersionsOpt /\ pc \in {"done", "failed"}
            /\ (force \/ Absent(currentVersion) \/ outdated.result = "true"))
         => Called("upgrade")
    /\ (force \/ Absent(currentVersion)) => ~Called("isOutdated")
    /\ outdated.result = "false"
         => ~Called("upgrade") /\ pc = "done" /\ failure = "none"
    /\ outdated.result \in {"ValidationError", "Error"}
         => ~Called("upgrade") /\ pc = "failed" /\ failure = outdated.result

C7_Witness ==
    /\ pc = "done"
    /\ ~force
    /\ calls = <<"isOutdated", "upgrade">>
    /\ outdated.result = "true"

\* C8: with --list-versions the command calls listVersions and, once it
\* completes, exits with code 0; isOutdated and upgrade are never invoked.
C8_ListVersionsExitsBeforeUpgrade ==
    listVersionsOpt
    => /\ ~Called("isOutdated")
       /\ ~Called("upgrade")
       /\ pc /= "options" => calls = <<"listVersions">>
       /\ (pc /= "options" /\ fetched.ok) => (pc = "exited" /\ exitCode = <<0>>)
       /\ (pc /= "options" /\ ~fetched.ok) => (pc = "failed" /\ exitCode = <<>>)

C8_Witness ==
    /\ listVersionsOpt
    /\ force
    /\ targetVersion = "v1"
    /\ pc = "exited"
    /\ exitCode = <<0>>

\* the success message for a resolved target version
SuccessMessage(to) ==
    "Successfully upgraded tool from " \o Str(currentVersion) \o " to version "
    \o Str(to) \o "! (https://raw.githubusercontent.com/owner/repo/" \o Str(to) \o "/)"

\* C9 as stated: upgrade completes without an error for every request and
\* every outcome of the remote requests.
C9_UpgradeNeverFails ==
    LastCall = "upgrade" => upgraded.result = "ok"

\* C9 amended: upgrade fails only when `to` is "latest" and a remote request
\* failed; in every other case it completes and emits the success message
\* with the registry URL of the resolved target version.
C9_UpgradeFailsOnlyOnFetchError ==
    LastCall = "upgrade"
    => /\ (upgraded.result /= "ok") <=> (targetVersion = "latest" /\ ~fetched.ok)
       /\ upgraded.result = "ok"
            => upgraded.message =
                 SuccessMessage(IF targetVersion = "latest"
                                THEN At(fetched.v.tags, 0)
                                ELSE targetVersion)

C9_Witness ==
    /\ LastCall = "upgrade"
    /\ targetVersion = "latest"
    /\ upgraded.result = "ok"
    /\ upgraded.to = "v2"
    /\ currentVersion = "v1"

\* C10: in an unforced run with a known current version and target "latest"
\* the version upgrade reports is the version isOutdated resolved and checked.
C10_UpgradeReportsCheckedVersion ==
    (pc = "done" /\ calls = <<"isOutdated", "upgrade">> /\ targetVersion = "latest")
    => upgraded.to = outdated.target

====
